---- MODULE Spec2Model ----
(***************************************************************************)
(* The request coalescing and caching layer of src/src/utils/logger.ts:    *)
(* RequestCoalescer (lines 231-289) and CachedRequestCoalescer (319-438).  *)
(*                                                                         *)
(* JavaScript runs every method call and every promise callback to         *)
(* completion on one thread, so each of them is one atomic action.  An     *)
(* operation handed to execute is opaque: it settles when the callback     *)
(* chained on its promise (.then / .catch) runs, with an outcome chosen    *)
(* there.  A caller that awaits the promise execute returned resumes in a  *)
(* later step (Observe).                                                   *)
(*                                                                         *)
(* RequestCoalescer is checked with the full history of calls and          *)
(* invocations (requests, calls).  CachedRequestCoalescer is checked with  *)
(* the promises that are still awaited (inflight) and the handler that     *)
(* ran last (last); its clock is the variable now.                         *)
(***************************************************************************)
EXTENDS Integers, Sequences, FiniteSets, TLC

VARIABLES
    pendingRequests,  \* Map<TKey, Promise<TResult>>: key -> the promise registered for it
    cache,            \* Map<TKey, CacheEntry>: key -> [result, timestamp]
    accessOrder,      \* TKey[]: least recently used first
    options,          \* CachedCoalescerOptions [ttl, maxSize]; 0 is undefined
    now,              \* Date.now()
    requests,         \* RequestCoalescer: every invocation of an operation, in order
    calls,            \* RequestCoalescer: every call of execute, in order
    inflight,         \* CachedRequestCoalescer: the promises somebody still awaits
    last,             \* CachedRequestCoalescer: the handler that ran last [op, key, val]
    created,          \* createKey: every call, in order [params, key]
    store,            \* race store: [races, selectedCategories, isLoading, error, lastFetchTime]
    fetches,          \* race store: every call of fetchRaces, in order
    timer,            \* CountdownTimer: [stage, startTime, timeLeft, intervalId, intervals, created]
    logs              \* Logger: [window, appLogs, stored]: window.__appLogs, oldest first

\* What the coalescers never touch, and what the race store never touches.
otherVars == <<created, store, fetches, timer, logs>>
coalescerVars == <<pendingRequests, cache, accessOrder, options, requests, calls,
                   inflight, last>>

vars == <<pendingRequests, cache, accessOrder, options, now, requests, calls,
          inflight, last, created, store, fetches, timer, logs>>

----------------------------------------------------------------------------
(* Bounds of the model *)

\* RequestCoalescer: calls of execute in one run
MaxCalls == 3
\* CachedRequestCoalescer: promises awaited at once, callers awaiting at once
MaxPromises == 1
MaxAwaiting == 2
\* CachedRequestCoalescer under invalidate/clear races: promises awaited at once
MaxRacing == 2
\* the clock stops here
MaxTime == 2

Keys == {"k1", "k2"}
LruKeys == {"k1", "k2", "k3"}
RaceKeys == {"k1"}
Results == {"v1", "v2"}
LruResults == {"v1"}
Errors == {"e1"}

None == 0
NoOutcome == [kind |-> "none", val |-> "none"]
Ok(v) == [kind |-> "ok", val |-> v]
Err(e) == [kind |-> "err", val |-> e]

----------------------------------------------------------------------------
(* Map primitives *)

MapHas(m, k) == k \in DOMAIN m

MapGet(m, k) == IF k \in DOMAIN m THEN m[k] ELSE None

MapSet(m, k, v) == [x \in (DOMAIN m) \cup {k} |-> IF x = k THEN v ELSE m[x]]

MapDeleteKeep(m, k) == m

MapDelete(m, k) == [x \in (DOMAIN m) \ {k} |-> m[x]]

EmptyMap == [x \in {} |-> None]

MapSize(m) == Cardinality(DOMAIN m)

----------------------------------------------------------------------------
(* Bookkeeping of calls and invocations (what the callers and the          *)
(* operations see; the coalescers hold none of it)                         *)

\* A call of execute that invoked its own operation and registered its promise.
\* result is what the operation settles with, outcome what the registered
\* promise (the operation's promise with .then and .catch chained) settles with.
\* request is the thunk the call was given; the invocation keeps the thunk
\* that was invoked.
StartRequestOf(k, request) ==
    /\ requests' = Append(requests,
           [key |-> k, owner |-> Len(calls) + 1, state |-> "running",
            result |-> NoOutcome, outcome |-> NoOutcome, cleared |-> FALSE,
            request |-> request])
    /\ calls' = Append(calls,
           [key |-> k, promise |-> Len(requests) + 1, invoked |-> TRUE,
            got |-> NoOutcome, request |-> request])

StartRequest(k) == StartRequestOf(k, "op")

\* A call of execute that returned the promise already registered for its key.
AttachToOf(k, p, request) ==
    /\ requests' = requests
    /\ calls' = Append(calls,
           [key |-> k, promise |-> p, invoked |-> FALSE, got |-> NoOutcome,
            request |-> request])

AttachTo(k, p) == AttachToOf(k, p, "op")

\* Marks the requests whose registered promise a clear of the keys ks deregisters.
Deregistered(ks) ==
    [r \in 1..Len(requests) |->
        IF requests[r].key \in ks /\ MapGet(pendingRequests, requests[r].key) = r
          THEN [requests[r] EXCEPT !.cleared = TRUE]
          ELSE requests[r]]

----------------------------------------------------------------------------
(* RequestCoalescer *)

\* const pending = this.pendingRequests.get(key)
PendingForNone(k) == None

PendingFor(k) == MapGet(pendingRequests, k)

\* this.pendingRequests.delete(key) in the .then callback
AfterThenKeep(k) == pendingRequests

AfterThenAll(k) == EmptyMap

AfterThen(k) == MapDelete(pendingRequests, k)

\* this.pendingRequests.delete(key) in the .catch callback
AfterCatchKeep(k) == pendingRequests

AfterCatch(k) == MapDelete(pendingRequests, k)

\* throw error in the .catch callback: the registered promise rejects with it
Rethrown(e) == Err(e)

\* execute(key, request)
ExecuteRequest(k, request) ==
    /\ Len(calls) < MaxCalls
    /\ IF PendingFor(k) # None
         THEN /\ AttachToOf(k, PendingFor(k), request)
              /\ UNCHANGED pendingRequests
         ELSE /\ StartRequestOf(k, request)
              /\ pendingRequests' = MapSet(pendingRequests, k, Len(requests) + 1)
    /\ UNCHANGED <<otherVars, cache, accessOrder, options, now, inflight, last>>

\* execute(key, request) with an operation that is told apart by its key alone
Execute(k) == ExecuteRequest(k, "op")

\* .then(result => { this.pendingRequests.delete(key); return result; })
Then(r, v) ==
    /\ requests[r].state = "running"
    /\ pendingRequests' = AfterThen(requests[r].key)
    /\ requests' = [requests EXCEPT ![r].state = "resolved",
                                    ![r].result = Ok(v),
                                    ![r].outcome = Ok(v)]
    /\ UNCHANGED <<otherVars, cache, accessOrder, options, now, calls, inflight, last>>

\* .catch(error => { this.pendingRequests.delete(key); throw error; })
Catch(r, e) ==
    /\ requests[r].state = "running"
    /\ pendingRequests' = AfterCatch(requests[r].key)
    /\ requests' = [requests EXCEPT ![r].state = "rejected",
                                    ![r].result = Err(e),
                                    ![r].outcome = Rethrown(e)]
    /\ UNCHANGED <<otherVars, cache, accessOrder, options, now, calls, inflight, last>>

\* The caller's await on the promise execute returned resumes.
Observe(c) ==
    /\ calls[c].got = NoOutcome
    /\ calls[c].promise # None
    /\ requests[calls[c].promise].state # "running"
    /\ calls' = [calls EXCEPT ![c].got = requests[calls[c].promise].outcome]
    /\ UNCHANGED <<otherVars, pendingRequests, cache, accessOrder, options, now, requests, inflight, last>>

IsPending(k) == MapHas(pendingRequests, k)

GetPendingCount == MapSize(pendingRequests)

ClearedKeep(k) == pendingRequests

Cleared(k) == MapDelete(pendingRequests, k)

Clear(k) ==
    /\ pendingRequests' = Cleared(k)
    /\ requests' = Deregistered({k})
    /\ UNCHANGED <<otherVars, cache, accessOrder, options, now, calls, inflight, last>>

ClearAll ==
    /\ pendingRequests' = EmptyMap
    /\ requests' = Deregistered(Keys)
    /\ UNCHANGED <<otherVars, cache, accessOrder, options, now, calls, inflight, last>>

\* useRaceStore(): the refs of the store as they are created
StoreCreated ==
    [races |-> <<>>, selectedCategories |-> {}, isLoading |-> FALSE,
     error |-> "null", lastFetchTime |-> <<>>]

\* Nothing but the coalescer is in use.
\* CountdownTimer setup: timeLeft = ref(0), intervalId = ref(null), for the given prop
TimerSetup(startTime) ==
    [stage |-> "setup", startTime |-> startTime, timeLeft |-> 0, intervalId |-> <<>>,
     intervals |-> {}, created |-> 0]

\* window.__appLogs before the first log call; stored counts the entries stored so far
LogsCreated(window) == [window |-> window, appLogs |-> <<>>, stored |-> 0]

\* Nothing but the coalescer is in use.
OthersIdle ==
    /\ created = <<>>
    /\ store = StoreCreated
    /\ fetches = <<>>
    /\ timer = TimerSetup([form |-> "string", time |-> 0])
    /\ logs = LogsCreated(TRUE)

Init ==
    /\ pendingRequests = EmptyMap
    /\ cache = EmptyMap
    /\ accessOrder = <<>>
    /\ options = [ttl |-> 0, maxSize |-> 0]
    /\ now = 0
    /\ requests = <<>>
    /\ calls = <<>>
    /\ inflight = <<>>
    /\ last = [op |-> "new", key |-> "none", val |-> "none"]
    /\ OthersIdle

Next ==
    \/ \E k \in Keys : Execute(k)
    \/ \E r \in 1..Len(requests) : \E v \in Results : Then(r, v)
    \/ \E r \in 1..Len(requests) : \E e \in Errors : Catch(r, e)
    \/ \E c \in 1..Len(calls) : Observe(c)
    \/ \E k \in Keys : Clear(k)
    \/ ClearAll

Spec == Init /\ [][Next]_vars

\* The same coalescer driven by callers that never call clear or clearAll.
NextNoClear ==
    \/ \E k \in Keys : Execute(k)
    \/ \E r \in 1..Len(requests) : \E v \in Results : Then(r, v)
    \/ \E r \in 1..Len(requests) : \E e \in Errors : Catch(r, e)
    \/ \E c \in 1..Len(calls) : Observe(c)

SpecNoClear == Init /\ [][NextNoClear]_vars

----------------------------------------------------------------------------
(* coalesceFunction *)

Wrappers == {"f", "g"}

\* The argument lists the wrapped function is called with: [id, ignore]
FnArgs == {<<"123", "a">>, <<"123", "b">>, <<"456", "a">>}

\* keyFn(...args): the key function of the tests, obj => obj.id
KeyFn(a) == a[1]

\* const coalescer = new RequestCoalescer(): one for each coalesceFunction call.
\* The pending maps of all of them are kept in pendingRequests, each entry
\* under the coalescer that owns it.
CoalescerShared(w) == "shared"

Coalescer(w) == w

\* The function coalesceFunction(fn, keyFn) returned for the wrapper w, called
\* with the arguments a: coalescer.execute(keyFn(...args), () => fn(...args))
Coalesced(w, a) ==
    ExecuteRequest(<<Coalescer(w), KeyFn(a)>>, [wrapper |-> w, args |-> a])

\* fn(...args) resolves; its value tells the arguments it was invoked with
FnResolves(r) == Then(r, requests[r].request.args)

NextWrapped ==
    \/ \E w \in Wrappers : \E a \in FnArgs : Coalesced(w, a)
    \/ \E r \in 1..Len(requests) : FnResolves(r)
    \/ \E r \in 1..Len(requests) : \E e \in Errors : Catch(r, e)
    \/ \E c \in 1..Len(calls) : Observe(c)

SpecWrapped == Init /\ [][NextWrapped]_vars

----------------------------------------------------------------------------
(* CachedRequestCoalescer *)

\* Date.now() - entry.timestamp < this.options.ttl, false when ttl is not set
IsCacheValidInclusive(entry) ==
    IF options.ttl = 0 THEN FALSE ELSE now - entry.timestamp <= options.ttl

IsCacheValid(entry) ==
    IF options.ttl = 0 THEN FALSE ELSE now - entry.timestamp < options.ttl

\* indexOf(key) of a JavaScript array, 1-based; 0 when absent
IndexOf(order, k) ==
    IF \E i \in 1..Len(order) : order[i] = k
      THEN CHOOSE i \in 1..Len(order) :
               order[i] = k /\ \A j \in 1..(i - 1) : order[j] # k
      ELSE 0

\* splice(index, 1)
Splice1(order, i) == SubSeq(order, 1, i - 1) \o SubSeq(order, i + 1, Len(order))

UpdateAccessOrderPushOnly(order, k) == Append(order, k)

UpdateAccessOrderNoMove(order, k) ==
    IF IndexOf(order, k) > 0 THEN order ELSE Append(order, k)

UpdateAccessOrder(order, k) ==
    IF IndexOf(order, k) > 0
      THEN Append(Splice1(order, IndexOf(order, k)), k)
      ELSE Append(order, k)

\* this.options.maxSize && this.cache.size >= this.options.maxSize
ShouldEvictCountingValid ==
    /\ options.maxSize # 0
    /\ Cardinality({k \in DOMAIN cache : IsCacheValid(cache[k])}) >= options.maxSize

ShouldEvictOverfull == options.maxSize # 0 /\ MapSize(cache) > options.maxSize

ShouldEvict == options.maxSize # 0 /\ MapSize(cache) >= options.maxSize

\* const lruKey = this.accessOrder[0]
LruKeyNewest ==
    IF Len(accessOrder) > 0 THEN accessOrder[Len(accessOrder)] ELSE "undefined"

LruKey == IF Len(accessOrder) > 0 THEN accessOrder[1] ELSE "undefined"

\* setCacheEntry(key, result): the cache and the access order it leaves, and
\* the key it evicted ("none" when it evicted nothing)
SetCacheEntry(key, result) ==
    LET evicts == ShouldEvict /\ LruKey # "undefined"
        kept == IF evicts THEN MapDelete(cache, LruKey) ELSE cache
        order == IF evicts THEN Tail(accessOrder) ELSE accessOrder
    IN  [cache |-> MapSet(kept, key, [result |-> result, timestamp |-> now]),
         accessOrder |-> UpdateAccessOrder(order, key),
         evicted |-> IF evicts THEN LruKey ELSE "none"]

\* A promise nobody awaits any more.
Free == [state |-> "free", key |-> "none", outcome |-> NoOutcome, waiting |-> 0]

Slots == DOMAIN inflight

RECURSIVE WaitingUpTo(_)
WaitingUpTo(n) == IF n = 0 THEN 0 ELSE inflight[n].waiting + WaitingUpTo(n - 1)

\* The callers that await a promise execute returned.
Awaiting == WaitingUpTo(Len(inflight))

FreshSlot == CHOOSE p \in Slots :
                 inflight[p].state = "free" /\ \A q \in 1..(p - 1) : inflight[q].state # "free"

Registered(p) == \E k \in DOMAIN pendingRequests : pendingRequests[k] = p

Did(op, k, v) == last' = [op |-> op, key |-> k, val |-> v]

\* The cache after a hit on k: the hit branch writes no entry.
CacheAfterHitTouched(k) == MapSet(cache, k, [result |-> cache[k].result, timestamp |-> now])

CacheAfterHit(k) == cache

\* const pending = this.pendingRequests.get(key)
CachedPendingNone(k) == None

CachedPending(k) == MapGet(pendingRequests, k)

CachedExecute(k) ==
    /\ IF MapHas(cache, k) /\ IsCacheValid(cache[k])
         THEN \* cache hit: return cached.result
              /\ accessOrder' = UpdateAccessOrder(accessOrder, k)
              /\ cache' = CacheAfterHit(k)
              /\ Did("hit", k, cache[k].result)
              /\ UNCHANGED <<pendingRequests, inflight>>
         ELSE IF CachedPending(k) # None
           THEN \* return pending
                /\ Awaiting < MaxAwaiting
                /\ inflight' = [inflight EXCEPT ![CachedPending(k)].waiting = @ + 1]
                /\ Did("attach", k, "none")
                /\ UNCHANGED <<pendingRequests, cache, accessOrder>>
           ELSE \* request() is invoked and its promise registered
                /\ Awaiting < MaxAwaiting
                /\ \E p \in Slots : inflight[p].state = "free"
                /\ inflight' = [inflight EXCEPT ![FreshSlot] =
                       [state |-> "running", key |-> k, outcome |-> NoOutcome,
                        waiting |-> 1]]
                /\ pendingRequests' = MapSet(pendingRequests, k, FreshSlot)
                /\ Did("invoke", k, "none")
                /\ UNCHANGED <<cache, accessOrder>>
    /\ UNCHANGED <<otherVars, options, now, requests, calls>>

\* return result in the .then callback: the returned promise resolves with it
CachedReturnedNothing(v) == Ok("undefined")

CachedReturned(v) == Ok(v)

\* if (this.options.ttl) in the .then callback
CachesResultsAlways == TRUE

CachesResults == options.ttl # 0

\* .then(result => { delete(key); if (ttl) setCacheEntry(key, result); return result; })
CachedThen(p, v) ==
    /\ inflight[p].state = "running"
    /\ pendingRequests' = MapDelete(pendingRequests, inflight[p].key)
    /\ IF CachesResults
         THEN /\ cache' = SetCacheEntry(inflight[p].key, v).cache
              /\ accessOrder' = SetCacheEntry(inflight[p].key, v).accessOrder
              /\ Did("then", inflight[p].key, SetCacheEntry(inflight[p].key, v).evicted)
         ELSE /\ UNCHANGED <<cache, accessOrder>>
              /\ Did("then", inflight[p].key, "none")
    /\ inflight' = [inflight EXCEPT ![p].state = "resolved", ![p].outcome = CachedReturned(v)]
    /\ UNCHANGED <<otherVars, options, now, requests, calls>>

\* this.pendingRequests.delete(key) in the .catch callback
CachedAfterCatchKeep(k) == pendingRequests

CachedAfterCatch(k) == MapDelete(pendingRequests, k)

\* .catch(error => { this.pendingRequests.delete(key); throw error; })
\* last.val tells whether the delete found an entry (what Map.delete returns).
CachedCatch(p, e) ==
    /\ inflight[p].state = "running"
    /\ pendingRequests' = CachedAfterCatch(inflight[p].key)
    /\ inflight' = [inflight EXCEPT ![p].state = "rejected", ![p].outcome = Err(e)]
    /\ Did("catch", inflight[p].key,
           IF MapHas(pendingRequests, inflight[p].key) THEN "deleted" ELSE "none")
    /\ UNCHANGED <<otherVars, cache, accessOrder, options, now, requests, calls>>

\* A caller's await on the promise execute returned resumes with its outcome.
\* The promise is dropped once nobody awaits it and the map does not hold it.
CachedObserve(p) ==
    /\ inflight[p].state \in {"resolved", "rejected"}
    /\ inflight[p].waiting > 0
    /\ inflight' = [inflight EXCEPT ![p] =
           IF inflight[p].waiting = 1 /\ ~Registered(p)
             THEN Free
             ELSE [inflight[p] EXCEPT !.waiting = @ - 1]]
    /\ Did("observe", inflight[p].key, inflight[p].outcome.val)
    /\ UNCHANGED <<otherVars, pendingRequests, cache, accessOrder, options, now, requests, calls>>

\* const index = this.accessOrder.indexOf(key);
\* if (index > -1) this.accessOrder.splice(index, 1)
RemovedFromOrderKeep(order, k) == order

RemovedFromOrder(order, k) ==
    IF IndexOf(order, k) > 0 THEN Splice1(order, IndexOf(order, k)) ELSE order

Invalidate(k) ==
    /\ cache' = MapDelete(cache, k)
    /\ pendingRequests' = MapDelete(pendingRequests, k)
    /\ accessOrder' = RemovedFromOrder(accessOrder, k)
    /\ Did("invalidate", k, "none")
    /\ UNCHANGED <<otherVars, options, now, requests, calls, inflight>>

CachedClear ==
    /\ cache' = EmptyMap
    /\ pendingRequests' = EmptyMap
    /\ accessOrder' = <<>>
    /\ Did("clear", "none", "none")
    /\ UNCHANGED <<otherVars, options, now, requests, calls, inflight>>

GetStats ==
    [cacheSize |-> MapSize(cache), pendingCount |-> MapSize(pendingRequests),
     maxSize |-> options.maxSize, ttl |-> options.ttl]

IsCachedPresent(k) == MapHas(cache, k)

IsCached(k) == IF MapHas(cache, k) THEN IsCacheValid(cache[k]) ELSE FALSE

\* A call of isPending(key), of either class: return this.pendingRequests.has(key)
IsPendingCalled(k) ==
    /\ Did("isPending", k, IF IsPending(k) THEN "true" ELSE "false")
    /\ UNCHANGED <<otherVars, pendingRequests, cache, accessOrder, options, now, requests, calls, inflight>>

\* A call of getPendingCount(): return this.pendingRequests.size
GetPendingCountCalled ==
    /\ Did("getPendingCount", "none", ToString(GetPendingCount))
    /\ UNCHANGED <<otherVars, pendingRequests, cache, accessOrder, options, now, requests, calls, inflight>>

\* A call of getStats(); last.val keeps cacheSize and pendingCount
GetStatsCalled ==
    /\ Did("getStats", ToString(GetStats.cacheSize), ToString(GetStats.pendingCount))
    /\ UNCHANGED <<otherVars, pendingRequests, cache, accessOrder, options, now, requests, calls, inflight>>

\* The access order after isCached(key): the method reads the entry with
\* this.cache.get(key) and calls isCacheValid, never updateAccessOrder.
AccessOrderAfterIsCachedTouched(k) ==
    IF MapHas(cache, k) THEN UpdateAccessOrder(accessOrder, k) ELSE accessOrder

AccessOrderAfterIsCached(k) == accessOrder

\* A call of isCached(key)
IsCachedCalled(k) ==
    /\ accessOrder' = AccessOrderAfterIsCached(k)
    /\ Did("isCached", k, IF IsCached(k) THEN "true" ELSE "false")
    /\ UNCHANGED <<otherVars, pendingRequests, cache, options, now, requests, calls, inflight>>

\* Date.now() advances between two handlers.
Tick ==
    /\ now < MaxTime
    /\ now' = now + 1
    /\ Did("tick", "none", "none")
    /\ UNCHANGED <<otherVars, pendingRequests, cache, accessOrder, options, requests, calls, inflight>>

\* new CachedRequestCoalescer({ ttl, maxSize }), used by callers that keep at
\* most n promises awaited at once
ConstructedFor(ttl, maxSize, n) ==
    /\ pendingRequests = EmptyMap
    /\ cache = EmptyMap
    /\ accessOrder = <<>>
    /\ options = [ttl |-> ttl, maxSize |-> maxSize]
    /\ now = 0
    /\ requests = <<>>
    /\ calls = <<>>
    /\ inflight = [p \in 1..n |-> Free]
    /\ last = [op |-> "new", key |-> "none", val |-> "none"]
    /\ OthersIdle

Constructed(ttl, maxSize) == ConstructedFor(ttl, maxSize, MaxPromises)

\* A coalescer with ttl = 2, with maxSize = 1 or without maxSize, used with
\* two keys by operations that resolve with either of two values.
InitCached == \E maxSize \in {0, 1} : Constructed(2, maxSize)

NextCached ==
    \/ \E k \in Keys : CachedExecute(k)
    \/ \E p \in Slots : \E v \in Results : CachedThen(p, v)
    \/ \E p \in Slots : \E e \in Errors : CachedCatch(p, e)
    \/ \E p \in Slots : CachedObserve(p)
    \/ \E k \in Keys : Invalidate(k)
    \/ CachedClear
    \/ Tick

SpecCached == InitCached /\ [][NextCached]_vars

\* The same use of a coalescer constructed with or without ttl.
InitAnyTtl == InitCached \/ Constructed(0, 0)

SpecAnyTtl == InitAnyTtl /\ [][NextCached]_vars

\* A coalescer with ttl = 2 and maxSize = 2, used with three keys.
InitLru == Constructed(2, 2)

NextLru ==
    \/ \E k \in LruKeys : CachedExecute(k)
    \/ \E p \in Slots : \E v \in LruResults : CachedThen(p, v)
    \/ \E p \in Slots : \E e \in Errors : CachedCatch(p, e)
    \/ \E p \in Slots : CachedObserve(p)
    \/ \E k \in LruKeys : Invalidate(k)
    \/ CachedClear
    \/ Tick

SpecLru == InitLru /\ [][NextLru]_vars

\* A coalescer with ttl = 2 and no maxSize, used with three keys.
InitUnbounded == Constructed(2, 0)

SpecUnbounded == InitUnbounded /\ [][NextLru]_vars

\* A coalescer with ttl = 2 and no maxSize, used with one key by callers that
\* invalidate and clear while operations are in flight, so that several
\* operations of the key run at once.
InitRace == ConstructedFor(2, 0, MaxRacing)

NextRace ==
    \/ \E k \in RaceKeys : CachedExecute(k)
    \/ \E p \in Slots : \E v \in Results : CachedThen(p, v)
    \/ \E p \in Slots : \E e \in Errors : CachedCatch(p, e)
    \/ \E p \in Slots : CachedObserve(p)
    \/ \E k \in RaceKeys : Invalidate(k)
    \/ CachedClear
    \/ Tick

SpecRace == InitRace /\ [][NextRace]_vars

\* Either coalescer with its queries: a RequestCoalescer, or a
\* CachedRequestCoalescer with ttl = 2 and maxSize = 2 used with three keys
\* whose entries do not expire during the run.
InitQueries == Init \/ InitLru

NextCoalescerQueries ==
    \/ NextNoClear
    \/ \E k \in Keys : IsPendingCalled(k)
    \/ GetPendingCountCalled

NextCachedQueries ==
    \/ \E k \in LruKeys : CachedExecute(k)
    \/ \E p \in Slots : \E v \in LruResults : CachedThen(p, v)
    \/ \E p \in Slots : CachedObserve(p)
    \/ \E k \in LruKeys : IsPendingCalled(k)
    \/ \E k \in LruKeys : IsCachedCalled(k)
    \/ GetStatsCalled

NextQueries ==
    \/ inflight = <<>> /\ NextCoalescerQueries
    \/ inflight # <<>> /\ NextCachedQueries

SpecQueries == InitQueries /\ [][NextQueries]_vars

\* Either coalescer, driven by callers that never call clear, clearAll or
\* invalidate: a RequestCoalescer (no promise slots) or a CachedRequestCoalescer.
NextRaceNoClear ==
    \/ \E k \in RaceKeys : CachedExecute(k)
    \/ \E p \in Slots : \E v \in Results : CachedThen(p, v)
    \/ \E p \in Slots : \E e \in Errors : CachedCatch(p, e)
    \/ \E p \in Slots : CachedObserve(p)
    \/ Tick

InitEither == Init \/ InitRace

NextEither ==
    \/ inflight = <<>> /\ NextNoClear
    \/ inflight # <<>> /\ NextRaceNoClear

SpecEitherNoClear == InitEither /\ [][NextEither]_vars

\* Either coalescer used with one key, under the scheduling the claims on
\* termination assume: every operation that was invoked settles, and the
\* promise jobs of a settled promise run (the JavaScript job queue runs every
\* reaction of a settled promise).
Settles(r) ==
    /\ r \in 1..Len(requests)
    /\ \/ \E v \in Results : Then(r, v)
       \/ \E e \in Errors : Catch(r, e)

Observes(c) == c \in 1..Len(calls) /\ Observe(c)

CachedSettles(p) ==
    /\ p \in Slots
    /\ \/ \E v \in Results : CachedThen(p, v)
       \/ \E e \in Errors : CachedCatch(p, e)

CachedObserves(p) == p \in Slots /\ CachedObserve(p)

NextCoalescerLive ==
    \/ \E k \in RaceKeys : Execute(k)
    \/ \E r \in 1..MaxCalls : Settles(r)
    \/ \E c \in 1..MaxCalls : Observes(c)
    \/ \E k \in RaceKeys : Clear(k)
    \/ ClearAll

NextCachedLive ==
    \/ \E k \in RaceKeys : CachedExecute(k)
    \/ \E p \in 1..MaxRacing : CachedSettles(p)
    \/ \E p \in 1..MaxRacing : CachedObserves(p)
    \/ \E k \in RaceKeys : Invalidate(k)
    \/ CachedClear
    \/ Tick

NextLive ==
    \/ inflight = <<>> /\ NextCoalescerLive
    \/ inflight # <<>> /\ NextCachedLive

Fairness ==
    /\ \A r \in 1..MaxCalls : WF_vars(Settles(r)) /\ WF_vars(Observes(r))
    /\ \A p \in 1..MaxRacing : WF_vars(CachedSettles(p)) /\ WF_vars(CachedObserves(p))

SpecLive == InitEither /\ [][NextLive]_vars /\ Fairness

\* A coalescer constructed without ttl, used the same way.
InitNoTtl == ConstructedFor(0, 0, MaxRacing)

SpecNoTtl == InitNoTtl /\ [][NextRace]_vars

----------------------------------------------------------------------------
(* Vocabulary of the properties *)

RequestIds == 1..Len(requests)
CallIds == 1..Len(calls)

\* The operations for key k that were invoked and have not settled.
Running(k) == {r \in RequestIds : requests[r].key = k /\ requests[r].state = "running"}

RequestsFor(k) == {r \in RequestIds : requests[r].key = k}

\* The calls that were handed the promise of request r.
Attached(r) == {c \in CallIds : calls[c].promise = r}

\* This step is a call of execute; NewCall is its record.
IsCallStep == Len(calls') = Len(calls) + 1
NewCall == calls'[Len(calls')]
InvokesOwn == /\ NewCall.invoked
              /\ Len(requests') = Len(requests) + 1
              /\ NewCall.promise = Len(requests')
              /\ requests'[Len(requests')].owner = Len(calls')
              /\ requests'[Len(requests')].key = NewCall.key
              /\ requests'[Len(requests')].state = "running"

\* This step is the settlement callback (.then or .catch) of request r.
SettlesStep(r) == requests[r].state = "running" /\ requests'[r].state # "running"

\* This step resumes call c with the outcome of the promise it awaited.
ObservesStep(c) == calls[c].got = NoOutcome /\ calls'[c].got # NoOutcome

----------------------------------------------------------------------------
(* RequestCoalescer: claims *)

C1_State ==
    /\ \A k \in Keys : Cardinality(Running(k)) <= 1
    /\ \A r \in RequestIds :
          /\ requests[r].owner \in Attached(r)
          /\ \A c \in Attached(r) : calls[c].invoked <=> requests[r].owner = c
          /\ \A c \in Attached(r) : calls[c].key = requests[r].key
          /\ \A c \in Attached(r) :
                calls[c].got # NoOutcome =>
                    /\ requests[r].state # "running"
                    /\ calls[c].got = requests[r].result
    /\ \A r1, r2 \in RequestIds : requests[r1].owner = requests[r2].owner => r1 = r2

C1_Step ==
    IsCallStep =>
        (Running(NewCall.key) # {} =>
            /\ NewCall.promise \in Running(NewCall.key)
            /\ ~NewCall.invoked
            /\ requests' = requests)

\* C1: without clear/clearAll, every execute(k, op) issued while an operation
\* for k is running shares that run: only the first caller's op is invoked,
\* once; at most one operation per key runs at any instant; every caller
\* attached to it receives the value it resolved with.
C1_Coalescing == []C1_State /\ [][C1_Step]_vars

C1_Witness ==
    /\ Len(requests) = 1
    /\ Cardinality(Attached(1)) = 3
    /\ \A c \in Attached(1) : calls[c].got = Ok("v2")

LastRequestFor(k) == CHOOSE r \in RequestsFor(k) : \A q \in RequestsFor(k) : q <= r

C2_State ==
    /\ \A r \in RequestIds :
          requests[r].state = "rejected" =>
              /\ requests[r].result.kind = "err"
              /\ requests[r].outcome = requests[r].result
              /\ \A c \in Attached(r) :
                    calls[c].got # NoOutcome => calls[c].got = requests[r].result
    /\ \A c \in CallIds : Cardinality({r \in RequestIds : requests[r].owner = c}) <= 1

C2_Step ==
    /\ \A r \in RequestIds :
          (SettlesStep(r) /\ requests'[r].state = "rejected") =>
              /\ Len(requests') = Len(requests)
              /\ ~MapHas(pendingRequests', requests[r].key)
    /\ IsCallStep =>
          ((/\ RequestsFor(NewCall.key) # {}
            /\ requests[LastRequestFor(NewCall.key)].state = "rejected") => InvokesOwn)

\* C2: when the operation registered for k fails, every caller attached to it
\* receives that very failure, the coalescer invokes nothing again on its own,
\* the pending entry of k is gone, and the next execute(k, op2) invokes op2.
C2_FailureFanOut == []C2_State /\ [][C2_Step]_vars

C2_Witness ==
    /\ Len(requests) = 2
    /\ requests[1].state = "rejected"
    /\ requests[2].key = requests[1].key
    /\ Cardinality(Attached(1)) = 2
    /\ \A c \in Attached(1) : calls[c].got = Err("e1")

C3_State ==
    \A c \in CallIds :
        /\ requests[calls[c].promise].key = calls[c].key
        /\ calls[c].got # NoOutcome => calls[c].got = requests[calls[c].promise].result

C3_Step ==
    /\ IsCallStep =>
          /\ ((/\ Running(NewCall.key) = {}
               /\ \E k2 \in Keys \ {NewCall.key} : Running(k2) # {}) => InvokesOwn)
          /\ \A k2 \in Keys \ {NewCall.key} :
                MapGet(pendingRequests', k2) = MapGet(pendingRequests, k2)
    /\ \A r \in RequestIds :
          SettlesStep(r) =>
              \A k2 \in Keys \ {requests[r].key} :
                  MapGet(pendingRequests', k2) = MapGet(pendingRequests, k2)

\* C3: operations of distinct keys run independently: an execute(k1, op1)
\* issued while only another key's operation runs invokes op1, every caller
\* receives the outcome of its own key's operation, and neither a call nor a
\* settlement for one key touches the pending entry of another key.
C3_Independence == []C3_State /\ [][C3_Step]_vars

C3_Witness ==
    /\ Len(calls) = 2 /\ Len(requests) = 2
    /\ requests[1].key # requests[2].key
    /\ calls[1].got = Ok("v1")
    /\ requests[2].state = "running"
    /\ MapGet(pendingRequests, requests[2].key) = 2

C4_Step ==
    /\ \A r \in RequestIds :
          SettlesStep(r) => ~MapHas(pendingRequests', requests[r].key)
    /\ \A c \in CallIds :
          ObservesStep(c) =>
              /\ requests[calls[c].promise].state # "running"
              /\ \/ ~MapHas(pendingRequests, calls[c].key)
                 \/ /\ pendingRequests[calls[c].key] > calls[c].promise
                    /\ requests[pendingRequests[calls[c].key]].state = "running"
    /\ IsCallStep => requests'[NewCall.promise].state = "running"

C5_State ==
    \A k \in Keys :
        Cardinality(RequestsFor(k)) =
            Cardinality({c \in CallIds : calls[c].key = k /\ calls[c].invoked})

C5_Step ==
    IsCallStep =>
        /\ (Len(requests') = Len(requests) + 1) <=> ~MapHas(pendingRequests, NewCall.key)
        /\ NewCall.invoked <=> ~MapHas(pendingRequests, NewCall.key)
        /\ Running(NewCall.key) = {} => InvokesOwn

C6_State ==
    \A r \in RequestIds :
        requests[r].cleared =>
            /\ MapGet(pendingRequests, requests[r].key) # r
            /\ requests[r].outcome = requests[r].result
            /\ \A c \in Attached(r) :
                  calls[c].got # NoOutcome => calls[c].got = requests[r].result

\* This step is a clear or clearAll that deregisters the promise of request r.
ClearsStep(r) == ~requests[r].cleared /\ requests'[r].cleared

C6_Step ==
    /\ \A r \in RequestIds :
          ClearsStep(r) =>
              /\ ~MapHas(pendingRequests', requests[r].key)
              /\ calls' = calls
              /\ \A q \in RequestIds :
                    /\ requests'[q].state = requests[q].state
                    /\ requests'[q].outcome = requests[q].outcome
    /\ IsCallStep =>
          /\ ~requests'[NewCall.promise].cleared
          /\ (/\ Running(NewCall.key) # {}
              /\ \A r \in Running(NewCall.key) : requests[r].cleared) => InvokesOwn

\* C6: clear(k), and clearAll for every key, makes isPending(k) false in the
\* same step, leaves the operation in flight and the outcome its attached
\* callers receive untouched, and the next execute(k, op2) invokes op2.
C6_ClearInFlight == []C6_State /\ [][C6_Step]_vars

C6_Witness ==
    \E r \in RequestIds :
        /\ requests[r].cleared
        /\ requests[r].state = "resolved"
        /\ Cardinality(Attached(r)) = 2
        /\ \A c \in Attached(r) : calls[c].got = Ok("v1")
        /\ \E q \in RequestIds : q > r /\ requests[q].key = requests[r].key

----------------------------------------------------------------------------
(* CachedRequestCoalescer: claims *)

\* This step is a call of execute(k, _), whichever branch it took.
ExecutesStep(k) == last'.op \in {"hit", "attach", "invoke"} /\ last'.key = k

\* This step is the .then callback of the promise in slot p.
ResolvesStep(p) == inflight[p].state = "running" /\ inflight'[p].state = "resolved"

\* The entry of k is present and not expired.
ValidEntry(k) ==
    MapHas(cache, k) /\ options.ttl # 0 /\ now - cache[k].timestamp < options.ttl

\* The entry of k is present and expired.
ExpiredEntry(k) ==
    MapHas(cache, k) /\ options.ttl # 0 /\ now - cache[k].timestamp >= options.ttl

Without(order, k) == SelectSeq(order, LAMBDA x : x # k)

C7_Step ==
    \A k \in Keys :
        (ExecutesStep(k) /\ ValidEntry(k)) =>
            /\ last'.op = "hit"
            /\ last'.val = cache[k].result
            /\ inflight' = inflight
            /\ pendingRequests' = pendingRequests
            /\ cache' = cache
            /\ Len(accessOrder') = Len(accessOrder)
            /\ accessOrder'[Len(accessOrder')] = k
            /\ Without(accessOrder', k) = Without(accessOrder, k)

\* C7: an execute(k, op) that finds a valid entry for k invokes nothing and
\* attaches to nothing, returns the stored value, leaves the pending map and
\* the cache (value and timestamp of every entry) unchanged, and makes k the
\* most recently used key without reordering the others.
C7_CacheHitFrame == [][C7_Step]_vars

C7_Witness ==
    \E k \in Keys : \E j \in Keys \ {k} :
        /\ last = [op |-> "hit", key |-> k, val |-> "v2"]
        /\ accessOrder = <<j, k>>
        /\ cache[k].timestamp < cache[j].timestamp

C8_Step ==
    /\ \A k \in Keys :
          ExecutesStep(k) =>
              /\ ValidEntry(k) =>
                    /\ last'.op = "hit"
                    /\ last'.val = cache[k].result
                    /\ inflight' = inflight
              /\ (ExpiredEntry(k) /\ ~MapHas(pendingRequests, k)) =>
                    /\ last'.op = "invoke"
                    /\ MapHas(pendingRequests', k)
                    /\ inflight[pendingRequests'[k]].state = "free"
                    /\ inflight'[pendingRequests'[k]].state = "running"
                    /\ inflight'[pendingRequests'[k]].key = k
    /\ \A p \in Slots :
          (ResolvesStep(p) /\ options.ttl # 0) =>
              LET k == inflight[p].key IN
                  /\ MapHas(cache', k)
                  /\ cache'[k].result = inflight'[p].outcome.val
                  /\ cache'[k].timestamp = now
                  /\ now' - cache'[k].timestamp < options.ttl

\* C8: with ttl = T, an execute(k, op) at a time now with now - c < T, c the
\* timestamp of the entry of k, returns the stored value without invoking op;
\* one with now - c >= T and no pending entry invokes op; when an operation
\* for k succeeds the entry of k holds its value and the time of the
\* settlement, and is valid.
C8_TtlExpiry == [][C8_Step]_vars

C8_Witness ==
    \E k \in Keys :
        /\ last = [op |-> "invoke", key |-> k, val |-> "none"]
        /\ ExpiredEntry(k)
        /\ now - cache[k].timestamp = options.ttl

C9_Step ==
    /\ \A p \in Slots :
          (/\ ResolvesStep(p)
           /\ options.ttl # 0
           /\ options.maxSize # 0
           /\ MapSize(cache) = options.maxSize
           /\ ~MapHas(cache, inflight[p].key)) =>
              /\ accessOrder[1] \in DOMAIN cache
              /\ DOMAIN cache' = (DOMAIN cache \ {accessOrder[1]}) \cup {inflight[p].key}
              /\ \A k \in DOMAIN cache \ {accessOrder[1]} : cache'[k] = cache[k]
              /\ last'.val = accessOrder[1]
    /\ \A k \in LruKeys :
          (ExecutesStep(k) /\ ValidEntry(k) /\ MapSize(cache) > 1) =>
              /\ accessOrder'[1] # k
              /\ accessOrder'[Len(accessOrder')] = k

\* C9: with maxSize = M, admitting a result for a key that is not in a cache
\* of M entries evicts exactly one entry, the one at the front of the access
\* order, and keeps the others; a hit moves its key to the most recently used
\* end, so that it is not at the front while the cache holds another entry.
C9_LruEviction == [][C9_Step]_vars

C9_Witness ==
    /\ last = [op |-> "then", key |-> "k3", val |-> "k2"]
    /\ DOMAIN cache = {"k1", "k3"}
    /\ accessOrder = <<"k1", "k3">>
    /\ cache["k1"].timestamp < cache["k3"].timestamp

\* C10: with maxSize = M > 0 the cache never holds more than M entries.
C10_CacheSizeBound ==
    options.maxSize > 0 => GetStats.cacheSize <= options.maxSize

C10_Witness ==
    /\ options.maxSize > 0
    /\ GetStats.cacheSize = options.maxSize
    /\ last.op = "then"
    /\ last.val # "none"
    /\ GetStats.pendingCount = 0

\* This step is an execute(k, _) that returned the promise registered for k.
AttachesStep(k) ==
    /\ last'.op = "attach"
    /\ pendingRequests' = pendingRequests
    /\ inflight[pendingRequests[k]].state = "running"
    /\ inflight[pendingRequests[k]].key = k
    /\ inflight' = [inflight EXCEPT ![pendingRequests[k]].waiting = @ + 1]

\* This step is an execute(k, _) that invoked its operation and registered it.
InvokesStep(k) ==
    /\ last'.op = "invoke"
    /\ MapHas(pendingRequests', k)
    /\ inflight[pendingRequests'[k]].state = "free"
    /\ inflight' = [inflight EXCEPT ![pendingRequests'[k]] =
           [state |-> "running", key |-> k, outcome |-> NoOutcome, waiting |-> 1]]
    /\ \A j \in DOMAIN pendingRequests \ {k} :
          MapHas(pendingRequests', j) /\ pendingRequests'[j] = pendingRequests[j]

\* This step is the .catch callback of the promise in slot p.
RejectsStep(p) == inflight[p].state = "running" /\ inflight'[p].state = "rejected"

\* This step resumes a caller that awaited the promise in slot p.
ResumesStep(p) == last'.op = "observe" /\ inflight[p].waiting > 0 /\ inflight'[p] # inflight[p]

C11_FailureStep ==
    \A p \in Slots :
        /\ RejectsStep(p) =>
              /\ cache' = cache
              /\ accessOrder' = accessOrder
              /\ ~MapHas(pendingRequests', inflight[p].key)
              /\ inflight'[p].outcome.kind = "err"
              /\ inflight'[p].outcome.val \in Errors
              /\ \A k \in Keys : IsCached(k)' => IsCached(k)
        /\ (ResumesStep(p) /\ inflight[p].state = "rejected") =>
              /\ last'.val = inflight[p].outcome.val
              /\ last'.val \in Errors

C11_RetryStep ==
    \A k \in Keys :
        (last = [op |-> "catch", key |-> k, val |-> "deleted"] /\ ExecutesStep(k)) =>
            InvokesStep(k)

C12_State ==
    /\ GetStats.ttl = 0
    /\ cache = EmptyMap
    /\ accessOrder = <<>>
    /\ \A k \in Keys : ~IsCached(k)

C12_Step ==
    \A k \in Keys :
        ExecutesStep(k) =>
            IF IsPending(k) THEN AttachesStep(k) ELSE InvokesStep(k)

\* C12: a coalescer constructed without ttl never holds a cache entry,
\* isCached(k) is false for every k, every execute(k, op) that finds no
\* pending entry invokes op, and an execute(k, op) that finds the pending
\* entry of k shares the operation registered there.
C12_NoTtlNoCache == []C12_State /\ [][C12_Step]_vars

C12_Witness ==
    \E k \in Keys : \E p, q \in Slots :
        /\ options.ttl = 0
        /\ inflight[p].key = k /\ inflight[p].state = "resolved" /\ inflight[p].waiting = 1
        /\ inflight[p].outcome = Ok("v1")
        /\ inflight[q].key = k /\ inflight[q].state = "running" /\ inflight[q].waiting = 1
        /\ MapGet(pendingRequests, k) = q
        /\ last = [op |-> "invoke", key |-> k, val |-> "none"]
        /\ now = 0

C13_Step ==
    /\ \A k \in Keys :
          (ExecutesStep(k) /\ ~ValidEntry(k)) =>
              IF IsPending(k) THEN AttachesStep(k) ELSE InvokesStep(k)
    /\ \A p \in Slots :
          /\ ResumesStep(p) =>
                /\ inflight[p].state \in {"resolved", "rejected"}
                /\ last'.val = inflight[p].outcome.val
          /\ (inflight[p].state = "resolved" /\ inflight'[p] # Free) =>
                inflight'[p].outcome = inflight[p].outcome
          /\ (ResolvesStep(p) /\ options.ttl # 0) =>
                LET k == inflight[p].key IN
                    /\ ~IsPending(k)'
                    /\ IsCached(k)'
                    /\ cache'[k] = [result |-> inflight'[p].outcome.val, timestamp |-> now]
                    /\ accessOrder'[Len(accessOrder')] = k
                    /\ Without(accessOrder', k) = Without(Without(accessOrder, k), last'.val)

\* C13: with ttl configured, an execute(k, op) that finds no valid entry
\* invokes op when k has no pending entry and attaches to the registered
\* operation otherwise, so the calls issued before it settles invoke once;
\* every caller attached to it receives the value it settled with; on
\* success the pending entry of k is removed and the value is admitted as the
\* most recently used entry, so isCached(k) is true and isPending(k) false.
C13_CoalescingWithCache == [][C13_Step]_vars

C13_Witness ==
    \E k \in Keys : \E j \in Keys \ {k} : \E p \in Slots :
        /\ last = [op |-> "observe", key |-> k, val |-> "v2"]
        /\ inflight[p].key = k /\ inflight[p].outcome = Ok("v2") /\ inflight[p].waiting = 1
        /\ IsCached(k) /\ ~IsPending(k)
        /\ cache[k].result = "v2"
        /\ accessOrder = <<j, k>>

\* This step is invalidate(k).
InvalidatesStep(k) == last'.op = "invalidate" /\ last'.key = k

C14_Step ==
    \A k \in LruKeys :
        /\ InvalidatesStep(k) =>
              /\ ~MapHas(cache', k)
              /\ ~MapHas(pendingRequests', k)
              /\ accessOrder' = Without(accessOrder, k)
              /\ \A j \in LruKeys \ {k} :
                    /\ MapHas(cache', j) <=> MapHas(cache, j)
                    /\ MapHas(cache, j) => cache'[j] = cache[j]
                    /\ MapGet(pendingRequests', j) = MapGet(pendingRequests, j)
        /\ (last.op = "invalidate" /\ last.key = k /\ ExecutesStep(k)) => InvokesStep(k)

ClearsAllStep == last'.op = "clear"

\* This step is the .then or .catch callback of the promise in slot p.
CachedSettlesStep(p) == inflight[p].state = "running" /\ inflight'[p].state # "running"

C15_State ==
    \A p \in Slots :
        /\ inflight[p].state = "running" =>
              inflight[p].waiting >= 1 /\ inflight[p].outcome = NoOutcome
        /\ inflight[p].state = "resolved" => inflight[p].outcome.kind = "ok"
        /\ inflight[p].state = "rejected" => inflight[p].outcome.kind = "err"

C15_Step ==
    /\ (ClearsAllStep \/ \E k \in Keys : InvalidatesStep(k)) => inflight' = inflight
    /\ \A p \in Slots :
          /\ (ResolvesStep(p) /\ options.ttl # 0) =>
                inflight'[p].outcome = Ok(cache'[inflight[p].key].result)
          /\ CachedSettlesStep(p) =>
                /\ inflight'[p].waiting = inflight[p].waiting
                /\ inflight'[p].key = inflight[p].key
                /\ \A q \in Slots \ {p} : inflight'[q] = inflight[q]
          /\ ResumesStep(p) =>
                /\ inflight[p].state \in {"resolved", "rejected"}
                /\ last'.key = inflight[p].key
                /\ last'.val = inflight[p].outcome.val
                /\ \A q \in Slots \ {p} : inflight'[q] = inflight[q]
                /\ inflight'[p] # Free =>
                      inflight'[p] = [inflight[p] EXCEPT !.waiting = @ - 1]

\* C15: invalidate(k) and clear() leave every operation in flight, its
\* outcome and the callers attached to it untouched; an operation settles
\* with all its callers still attached whether or not its promise is still
\* registered, and each of them receives the value or failure it settled with.
C15_NoInterruption == []C15_State /\ [][C15_Step]_vars

\* A caller has just received v2 from an operation of k1 that was deregistered
\* while it ran: the entry it admitted is newer than the invocation of the
\* operation still running, which was invoked because k1 was no longer pending.
C15_Witness ==
    \E q \in Slots :
        /\ last = [op |-> "observe", key |-> "k1", val |-> "v2"]
        /\ inflight[q].key = "k1" /\ inflight[q].state = "running"
        /\ ~IsPending("k1")
        /\ ValidEntry("k1") /\ cache["k1"].result = "v2"

\* How many times k occurs in the access order.
Occurrences(k) == Cardinality({i \in 1..Len(accessOrder) : accessOrder[i] = k})

C16_State == \A k \in DOMAIN cache : Occurrences(k) = 1

C16_Step ==
    /\ \A k \in LruKeys :
          (last'.op = "hit" /\ last'.key = k) =>
              accessOrder'[Len(accessOrder')] = k
    /\ \A p \in Slots :
          (ResolvesStep(p) /\ options.ttl # 0) =>
              /\ MapHas(cache', inflight[p].key)
              /\ accessOrder'[Len(accessOrder')] = inflight[p].key

\* C16: every key present in the cache appears exactly once in the access
\* order, and every cache hit and every cache write leaves the key it touched
\* at the most recently used end.
C16_AccessOrderInvariant == []C16_State /\ [][C16_Step]_vars

C16_Witness ==
    /\ last = [op |-> "hit", key |-> "k2", val |-> "v1"]
    /\ accessOrder = <<"k3", "k2">>
    /\ DOMAIN cache = {"k2", "k3"}
    /\ cache["k2"].timestamp < cache["k3"].timestamp

\* The entry of k is removed or replaced in this step.
EntryChangesStep(k) == MapHas(cache, k) /\ (MapHas(cache', k) => cache'[k] # cache[k])

C17_State ==
    GetStats.cacheSize =
        Cardinality({k \in LruKeys : ValidEntry(k)}) + Cardinality({k \in LruKeys : ExpiredEntry(k)})

C17_Step ==
    /\ last'.op = "tick" => (cache' = cache /\ accessOrder' = accessOrder)
    /\ \A k \in LruKeys :
          EntryChangesStep(k) =>
              \/ last'.op = "then" /\ (last'.key = k \/ last'.val = k)
              \/ last'.op = "invalidate" /\ last'.key = k
              \/ last'.op = "clear"
    /\ \A p \in Slots :
          (/\ ResolvesStep(p)
           /\ options.maxSize # 0
           /\ GetStats.cacheSize = options.maxSize
           /\ ~MapHas(cache, inflight[p].key)
           /\ \E j \in LruKeys : ExpiredEntry(j)) =>
              /\ last'.val = accessOrder[1]
              /\ ~MapHas(cache', accessOrder[1])
              /\ GetStats.cacheSize' = options.maxSize

\* C17: expiry is lazy: the passage of time changes neither the cache nor the
\* access order; an entry leaves the cache only when a settlement overwrites
\* or evicts it or when it is invalidated or cleared; expired entries are
\* counted by getStats().cacheSize and fill the cache for the eviction
\* decision, which evicts the front of the access order.
C17_LazyExpiry == []C17_State /\ [][C17_Step]_vars

C17_Witness ==
    /\ last = [op |-> "then", key |-> "k3", val |-> "k1"]
    /\ ExpiredEntry("k2")
    /\ ValidEntry("k3")
    /\ GetStats.cacheSize = 2
    /\ accessOrder = <<"k2", "k3">>

\* C18: isCached(k) is true exactly when ttl is configured, an entry of k is
\* present and now - entry.timestamp < ttl; it is false for an expired entry,
\* for an absent key and whenever ttl is not configured.
C18_IsCachedExact ==
    \A k \in Keys :
        /\ IsCached(k) <=>
              (options.ttl # 0 /\ MapHas(cache, k) /\ now - cache[k].timestamp < options.ttl)
        /\ ExpiredEntry(k) => ~IsCached(k)
        /\ ~MapHas(cache, k) => ~IsCached(k)
        /\ options.ttl = 0 => ~IsCached(k)

C18_Witness ==
    /\ IsCached("k2")
    /\ MapHas(cache, "k1") /\ ~IsCached("k1")
    /\ now - cache["k1"].timestamp = options.ttl
    /\ now - cache["k2"].timestamp = options.ttl - 1

C19_State ==
    \A k \in DOMAIN cache :
        /\ cache[k].timestamp <= now
        /\ now >= cache[k].timestamp + options.ttl => ~IsCached(k)

C19_Step ==
    /\ now' >= now
    /\ \A k \in Keys :
          /\ (MapHas(cache, k) /\ MapHas(cache', k)) =>
                \/ cache'[k] = cache[k]
                \/ /\ last'.op = "then" /\ last'.key = k
                   /\ cache'[k].timestamp = now
          /\ (ExecutesStep(k) /\ ValidEntry(k)) => cache' = cache
          /\ (ExpiredEntry(k) /\ MapHas(cache', k) /\ cache'[k].timestamp = cache[k].timestamp) =>
                ~IsCached(k)'

\* C19: the value and the timestamp of a cache entry change only when a later
\* settlement of its key overwrites it; a hit writes nothing, so an entry
\* admitted at time c is invalid at every time >= c + ttl however many hits
\* it served.
C19_EntriesImmutable == []C19_State /\ [][C19_Step]_vars

C19_Witness ==
    /\ last.op = "tick"
    /\ accessOrder = <<"k2", "k1">>
    /\ cache["k1"].timestamp = 0 /\ cache["k2"].timestamp = 1
    /\ now = options.ttl
    /\ ~IsCached("k1") /\ IsCached("k2")

----------------------------------------------------------------------------
(* Both coalescers: claims *)

\* An operation started by execute(k, _) has not settled.
Unsettled(k) ==
    \/ Running(k) # {}
    \/ \E p \in Slots : inflight[p].state = "running" /\ inflight[p].key = k

\* C20: with no clear, clearAll or invalidate, isPending(k) is true exactly
\* when an operation started by execute(k, _) has not settled, and
\* getPendingCount() and getStats().pendingCount equal the number of keys
\* with such an operation, 0 once all have settled.
C20_PendingTracking ==
    /\ \A k \in Keys : IsPending(k) <=> Unsettled(k)
    /\ GetPendingCount = Cardinality({k \in Keys : Unsettled(k)})
    /\ GetStats.pendingCount = Cardinality({k \in Keys : Unsettled(k)})
    /\ (\A k \in Keys : ~Unsettled(k)) => GetPendingCount = 0

C20_Witness ==
    /\ Len(requests) = 3
    /\ requests[1].state = "resolved"
    /\ requests[2].state = "running" /\ requests[2].key # requests[1].key
    /\ requests[3].state = "running" /\ requests[3].key = requests[1].key
    /\ GetPendingCount = 2

----------------------------------------------------------------------------
(* createKey *)

MaxCreated == 2

\* JavaScript values: primitives, arrays, and plain objects as the sequence of
\* their own properties in insertion order.
Str(s) == [t |-> "string", v |-> s]
Num(n) == [t |-> "number", v |-> n]
Bool(b) == [t |-> "boolean", v |-> b]
Null == [t |-> "null"]
Undefined == [t |-> "undefined"]
Arr(elements) == [t |-> "array", v |-> elements]
Obj(properties) == [t |-> "object", v |-> properties]
Prop(name, value) == [k |-> name, v |-> value]

\* Array.join(",") over pieces of text
RECURSIVE Join(_)
Join(parts) ==
    IF parts = <<>> THEN <<>>
    ELSE IF Len(parts) = 1 THEN parts[1]
    ELSE parts[1] \o <<",">> \o Join(Tail(parts))

\* JSON.stringify(x), the text as its sequence of tokens. An undefined array
\* element is written null, a property whose value is undefined is left
\* out, and properties are written in insertion order.
RECURSIVE Stringify(_)
Stringify(x) ==
    CASE x.t = "string" -> <<"\"", x.v, "\"">>
      [] x.t = "number" -> <<ToString(x.v)>>
      [] x.t = "boolean" -> <<IF x.v THEN "true" ELSE "false">>
      [] x.t = "null" -> <<"null">>
      [] x.t = "array" ->
            <<"[">>
            \o Join([i \in 1..Len(x.v) |->
                       IF x.v[i].t = "undefined" THEN <<"null">>
                       ELSE Stringify(x.v[i])])
            \o <<"]">>
      [] x.t = "object" ->
            LET written == SelectSeq(x.v, LAMBDA p : p.v.t # "undefined")
            IN  <<"{">>
                \o Join([i \in 1..Len(written) |->
                           <<"\"", written[i].k, "\"", ":">>
                           \o Stringify(written[i].v)])
                \o <<"}">>
      [] OTHER -> <<>>

\* createKey(...params) { return JSON.stringify(params); }
CreateKey(params) == Stringify(Arr(params))

\* The parameter lists createKey is called with
ParamLists ==
    << <<Str("user"), Num(123)>>,
       <<Str("user"), Num(456)>>,
       <<Str("user"), Str("123")>>,
       <<Num(1), Bool(TRUE)>>,
       <<Arr(<<Num(1), Bool(TRUE)>>)>>,
       <<>>,
       <<Arr(<<>>)>>,
       <<Null>>,
       <<Undefined>>,
       <<Str("null")>>,
       <<Obj(<<>>)>>,
       <<Obj(<<Prop("a", Undefined)>>)>>,
       <<Obj(<<Prop("a", Num(1)), Prop("b", Num(2))>>)>>,
       <<Obj(<<Prop("b", Num(2)), Prop("a", Num(1))>>)>>,
       <<Obj(<<Prop("id", Num(1)),
               Prop("nested", Obj(<<Prop("value", Str("test"))>>))>>)>> >>

\* A call createKey(...params)
CallCreateKey(params) ==
    /\ Len(created) < MaxCreated
    /\ created' = Append(created, [params |-> params, key |-> CreateKey(params)])
    /\ UNCHANGED <<coalescerVars, now, store, fetches, timer, logs>>

NextKeys == \E i \in DOMAIN ParamLists : CallCreateKey(ParamLists[i])

SpecKeys == Init /\ [][NextKeys]_vars

----------------------------------------------------------------------------
(* Race store *)

MaxFetches == 2

\* count < 1 || count > 100
MinCount == 1
MaxCount == 100

\* The counts fetchRaces is called with
Counts == {0, 10, 101}

\* Races as raceApi.getRaces returns them. Of the fields validateRaceData
\* requires, race_id, category_id and advertised_start are kept; a missing
\* field is "" or 0, which are falsy as undefined is.
Race(id, category, start) ==
    [race_id |-> id, category_id |-> category, advertised_start |-> start]

\* What raceApi.getRaces resolves with
Responses ==
    { <<>>,
      <<Race("r1", "horse", 2), Race("", "horse", 1)>>,
      <<Race("r2", "greyhound", 1)>> }

\* What raceApi.getRaces rejects with: an Error, or a value that is no Error
Failures ==
    { [isError |-> TRUE, message |-> "Network error"],
      [isError |-> FALSE, message |-> "none"] }

\* validator.validateRaceData(race).isValid
ValidateRaceData(race) ==
    /\ race.race_id # ""
    /\ race.category_id # ""
    /\ race.advertised_start # 0

\* for (const race of data) if (validation.isValid) validRaces.push(race)
ValidRaces(data) == SelectSeq(data, ValidateRaceData)

\* err instanceof Error ? err.message : 'Unknown error occurred'
ErrorMessage(err) == IF err.isError THEN err.message ELSE "Unknown error occurred"

InvalidCountMessage == "Invalid count parameter: must be between 1 and 100"

InvalidCount(count) == count < MinCount \/ count > MaxCount

\* if (isLoading.value && !silent) return
BlockedAlways(silent) == store.isLoading

Blocked(silent) == store.isLoading /\ ~silent

\* A call of fetchRaces and how far it got: "skipped" (returned at the
\* guard), "threw" (invalid count), "awaiting" (raceApi.getRaces was called
\* and has not settled), "resolved" or "rejected" (the returned promise).
\* thrown is <<>>, or <<err>> for the value the returned promise rejected with;
\* result is <<>>, or <<validRaces>> for the races the call stored.
FetchCall(silent, state) ==
    [silent |-> silent, state |-> state, thrown |-> <<>>, result |-> <<>>]

\* throw new Error(errorMsg)
InvalidCountError == [isError |-> TRUE, message |-> InvalidCountMessage]

\* What a store action leaves alone outside the store; last names the action.
storeFrame == <<pendingRequests, cache, accessOrder, options, requests, calls, inflight, now, created,
                timer, logs>>

\* lastFetchTime is <<>> for null and <<t>> for the Date of time t.
\* fetchRaces(count, silent), up to await raceApi.getRaces(count)
FetchRaces(count, silent) ==
    /\ Len(fetches) < MaxFetches
    /\ IF Blocked(silent)
         THEN /\ fetches' = Append(fetches, FetchCall(silent, "skipped"))
              /\ store' = store
         ELSE IF InvalidCount(count)
         THEN /\ fetches' = Append(fetches,
                       [FetchCall(silent, "threw") EXCEPT !.thrown = <<InvalidCountError>>])
              /\ store' = IF silent THEN store
                          ELSE [store EXCEPT !.error = InvalidCountMessage]
         ELSE /\ fetches' = Append(fetches, FetchCall(silent, "awaiting"))
              /\ store' = IF silent THEN store
                          ELSE [store EXCEPT !.isLoading = TRUE, !.error = "null"]
    /\ Did("fetchRaces", "none", "none")
    /\ UNCHANGED storeFrame

\* isLoading after the finally block
AfterFinally(silent, loading) == IF silent THEN loading ELSE FALSE

\* fetchRaces after raceApi.getRaces resolved with data: the try block to
\* its end, then the finally block
GetRacesResolved(f, data) ==
    /\ fetches[f].state = "awaiting"
    /\ store' = [store EXCEPT !.races = ValidRaces(data),
                              !.lastFetchTime = <<now>>,
                              !.isLoading = AfterFinally(fetches[f].silent, @)]
    /\ fetches' = [fetches EXCEPT ![f].state = "resolved",
                                  ![f].result = <<ValidRaces(data)>>]
    /\ Did("getRaces", "none", "resolved")
    /\ UNCHANGED storeFrame

\* fetchRaces after raceApi.getRaces rejected with err: the catch block, then
\* the finally block
GetRacesRejected(f, err) ==
    /\ fetches[f].state = "awaiting"
    /\ store' = IF fetches[f].silent THEN store
                ELSE [store EXCEPT !.error = ErrorMessage(err),
                                   !.isLoading = AfterFinally(FALSE, @)]
    /\ fetches' = [fetches EXCEPT ![f] =
                       IF fetches[f].silent
                         THEN [@ EXCEPT !.state = "resolved"]
                         ELSE [@ EXCEPT !.state = "rejected", !.thrown = <<err>>]]
    /\ Did("getRaces", "none", "rejected")
    /\ UNCHANGED storeFrame

\* error.value = null
ErrorKept == store.error

ErrorCleared == "null"

\* clearError()
ClearError ==
    /\ store' = [store EXCEPT !.error = ErrorCleared]
    /\ Did("clearError", "none", "none")
    /\ UNCHANGED <<storeFrame, fetches>>

\* reset()
Reset ==
    /\ store' = [races |-> <<>>, selectedCategories |-> {}, isLoading |-> FALSE,
                 error |-> "null", lastFetchTime |-> <<>>]
    /\ Did("reset", "none", "none")
    /\ UNCHANGED <<storeFrame, fetches>>

NextStore ==
    \/ \E count \in Counts : \E silent \in BOOLEAN : FetchRaces(count, silent)
    \/ \E f \in DOMAIN fetches : \E data \in Responses : GetRacesResolved(f, data)
    \/ \E f \in DOMAIN fetches : \E err \in Failures : GetRacesRejected(f, err)
    \/ ClearError
    \/ Reset
    \/ Tick

SpecStore == Init /\ [][NextStore]_vars

----------------------------------------------------------------------------
(* Race store: category selection and the displayed races *)

\* CONFIG.MAX_RACES_DISPLAYED
MaxRacesDisplayed == 5

\* validCategoryIds; the names stand for the three UUIDs
ValidCategoryIds == {"greyhound", "harness", "horse"}

\* The ids toggleCategory is called with: the known ids, a known id with
\* blanks around it, a known id between < and >, an unknown id, the empty id
CategoryInputs ==
    {"greyhound", "harness", "horse", " horse ", "<harness>", "unknown", ""}

\* sanitizeString(input) on the ids above: < and > are removed and the text
\* is trimmed
SanitizeString(input) ==
    CASE input = " horse " -> "horse"
      [] input = "<harness>" -> "harness"
      [] OTHER -> input

\* validator.validateCategoryId(categoryId).isValid: the required rule on the
\* value, then the custom rule on the sanitized value
ValidateCategoryId(categoryId) ==
    /\ categoryId # ""
    /\ SanitizeString(categoryId) \in ValidCategoryIds

\* newSet after the delete or the add
ToggledKeep(selected, categoryId) == selected

Toggled(selected, categoryId) ==
    IF categoryId \in selected
      THEN selected \ {categoryId}
      ELSE selected \cup {categoryId}

\* toggleCategory(categoryId)
ToggleCategory(categoryId) ==
    /\ store' = IF ValidateCategoryId(categoryId)
                  THEN [store EXCEPT !.selectedCategories = Toggled(@, categoryId)]
                  ELSE store
    /\ Did("toggleCategory", categoryId, "none")
    /\ UNCHANGED <<storeFrame, fetches>>

\* selectAllCategories()
SelectAllCategories ==
    /\ store' = [store EXCEPT !.selectedCategories = {}]
    /\ Did("selectAllCategories", "none", "none")
    /\ UNCHANGED <<storeFrame, fetches>>

\* filteredRaces
FilteredRaces ==
    IF Cardinality(store.selectedCategories) = 0
      THEN store.races
      ELSE SelectSeq(store.races, LAMBDA race : race.category_id \in store.selectedCategories)

\* Array.prototype.sort with the comparator a.advertised_start.getTime() -
\* b.advertised_start.getTime(): a stable sort, here by insertion
RECURSIVE InsertByStart(_, _)
InsertByStart(sorted, race) ==
    IF sorted = <<>> THEN <<race>>
    ELSE IF race.advertised_start < Head(sorted).advertised_start
      THEN <<race>> \o sorted
      ELSE <<Head(sorted)>> \o InsertByStart(Tail(sorted), race)

RECURSIVE SortByStart(_)
SortByStart(list) ==
    IF list = <<>> THEN <<>>
    ELSE InsertByStart(SortByStart(SubSeq(list, 1, Len(list) - 1)), list[Len(list)])

\* slice(0, n)
SliceAll(list, n) == list

Slice(list, n) == SubSeq(list, 1, IF Len(list) < n THEN Len(list) ELSE n)

\* sortedRaces
SortedRaces == Slice(SortByStart(FilteredRaces), MaxRacesDisplayed)

\* What raceApi.getRaces resolves with when the displayed races are looked
\* at: more races than are displayed, out of order, of three categories, two
\* of them starting at the same time
Listings ==
    { <<Race("a", "horse", 3), Race("b", "greyhound", 1), Race("c", "horse", 2),
        Race("d", "harness", 2), Race("e", "horse", 5), Race("f", "greyhound", 4),
        Race("g", "horse", 6)>>,
      <<Race("h", "horse", 7), Race("i", "horse", 6), Race("j", "horse", 5),
        Race("k", "horse", 4), Race("l", "horse", 3), Race("m", "horse", 2),
        Race("n", "harness", 1)>>,
      <<Race("o", "greyhound", 2), Race("p", "horse", 1)>> }

NextCategories ==
    \/ FetchRaces(10, FALSE)
    \/ \E f \in DOMAIN fetches : \E data \in Listings : GetRacesResolved(f, data)
    \/ \E categoryId \in CategoryInputs : ToggleCategory(categoryId)
    \/ SelectAllCategories
    \/ Reset

SpecCategories == Init /\ [][NextCategories]_vars

----------------------------------------------------------------------------
(* CountdownTimer *)

\* setInterval calls one component makes
MaxTimers == 2

\* props.startTime: an ISO string or a Date, of a time around now
StartTimes ==
    { [form |-> form, time |-> time] : form \in {"string", "date"}, time \in 0 .. MaxTime }

\* props.startTime instanceof Date ? props.startTime.getTime() : new Date(props.startTime).getTime()
GetTime(startTime) == startTime.time

Max(a, b) == IF a >= b THEN a ELSE b

\* clearInterval(intervalId.value); intervalId.value = null
ClearIntervalKeep(t) == [t EXCEPT !.intervalId = <<>>]
ClearInterval(t) ==
    [t EXCEPT !.intervals = @ \ {t.intervalId[1]}, !.intervalId = <<>>]

\* Math.max(0, startTime - now)
TimeLeft(t) == Max(0, GetTime(t.startTime) - now)

\* updateCountdown()
UpdateCountdown(t) ==
    LET u == [t EXCEPT !.timeLeft = TimeLeft(t)]
    IN  IF u.timeLeft <= 0 /\ u.intervalId # <<>> THEN ClearInterval(u) ELSE u

\* startTimer(): setInterval hands out a fresh id
StartTimer(t) ==
    LET u == UpdateCountdown(t)
        id == u.created + 1
    IN  [u EXCEPT !.intervalId = <<id>>, !.intervals = @ \cup {id}, !.created = id]

\* stopTimer()
StopTimer(t) == IF t.intervalId # <<>> THEN ClearInterval(t) ELSE t

\* The template: the countdown while timeLeft > 0, else STARTED
Displayed(t) == IF t.timeLeft > 0 THEN "countdown" ELSE "STARTED"

timerFrame == <<pendingRequests, cache, accessOrder, options, requests, calls, inflight, now,
                created, store, fetches, logs>>

\* onMounted
OnMounted ==
    /\ timer.stage = "setup"
    /\ timer.created < MaxTimers
    /\ timer' = [StartTimer(timer) EXCEPT !.stage = "mounted"]
    /\ Did("onMounted", "none", "none")
    /\ UNCHANGED timerFrame

\* The callback of an interval that has not been cleared
IntervalFires(id) ==
    /\ id \in timer.intervals
    /\ timer' = UpdateCountdown(timer)
    /\ Did("interval", "none", "none")
    /\ UNCHANGED timerFrame

\* The parent passes another startTime to the mounted component: watch(() => props.startTime)
WatchStartTime(newTime) ==
    /\ timer.stage = "mounted"
    /\ newTime # timer.startTime
    /\ LET t == [timer EXCEPT !.startTime = newTime]
       IN  IF GetTime(newTime) # GetTime(timer.startTime)
           THEN /\ timer.created < MaxTimers
                /\ timer' = StartTimer(StopTimer(t))
                /\ Did("watch", "none", "restarted")
           ELSE /\ timer' = t
                /\ Did("watch", "none", "kept")
    /\ UNCHANGED timerFrame

\* onUnmounted
OnUnmounted ==
    /\ timer.stage = "mounted"
    /\ timer' = [StopTimer(timer) EXCEPT !.stage = "unmounted"]
    /\ Did("onUnmounted", "none", "none")
    /\ UNCHANGED timerFrame

InitTimer ==
    /\ pendingRequests = EmptyMap
    /\ cache = EmptyMap
    /\ accessOrder = <<>>
    /\ options = [ttl |-> 0, maxSize |-> 0]
    /\ now = 0
    /\ requests = <<>>
    /\ calls = <<>>
    /\ inflight = <<>>
    /\ last = [op |-> "new", key |-> "none", val |-> "none"]
    /\ created = <<>>
    /\ store = StoreCreated
    /\ fetches = <<>>
    /\ logs = LogsCreated(TRUE)
    /\ \E startTime \in StartTimes : timer = TimerSetup(startTime)

NextTimer ==
    \/ OnMounted
    \/ \E id \in 1 .. MaxTimers : IntervalFires(id)
    \/ \E newTime \in StartTimes : WatchStartTime(newTime)
    \/ OnUnmounted
    \/ Tick

SpecTimer == InitTimer /\ [][NextTimer]_vars

----------------------------------------------------------------------------
(* Logger: the in-memory log store *)

\* Log calls that pass shouldLog
MaxLogCalls == 102

\* Keep only last 100 logs
MaxStoredLogs == 100

\* logs.splice(0, logs.length - 100)
SplicedKeep(pushed) == pushed
Spliced(pushed) == SubSeq(pushed, Len(pushed) - MaxStoredLogs + 1, Len(pushed))

\* storeLog(logEntry)
StoreLog(l, logEntry) ==
    IF l.window
    THEN LET pushed == Append(l.appLogs, logEntry)
         IN  [l EXCEPT !.appLogs = IF Len(pushed) > MaxStoredLogs THEN Spliced(pushed) ELSE pushed,
                       !.stored = logEntry]
    ELSE [l EXCEPT !.stored = logEntry]

\* getLogs()
GetLogs == IF logs.window THEN logs.appLogs ELSE <<>>

loggerFrame == <<pendingRequests, cache, accessOrder, options, requests, calls, inflight, now,
                 created, store, fetches, timer>>

\* debug / info / warn / error: log(level, message); the entry is named by its ordinal
\* among the entries handed to storeLog. A call below minLevel returns at once.
LogCalled(shouldLog) ==
    /\ logs.stored < MaxLogCalls
    /\ IF shouldLog
       THEN /\ logs' = StoreLog(logs, logs.stored + 1)
            /\ Did("log", "none", "stored")
       ELSE /\ logs' = logs
            /\ Did("log", "none", "skipped")
    /\ UNCHANGED loggerFrame

\* clearLogs()
ClearLogs ==
    /\ logs' = IF logs.window THEN [logs EXCEPT !.appLogs = <<>>] ELSE logs
    /\ Did("clearLogs", "none", "none")
    /\ UNCHANGED loggerFrame

InitLogger ==
    /\ pendingRequests = EmptyMap
    /\ cache = EmptyMap
    /\ accessOrder = <<>>
    /\ options = [ttl |-> 0, maxSize |-> 0]
    /\ now = 0
    /\ requests = <<>>
    /\ calls = <<>>
    /\ inflight = <<>>
    /\ last = [op |-> "new", key |-> "none", val |-> "none"]
    /\ created = <<>>
    /\ store = StoreCreated
    /\ fetches = <<>>
    /\ timer = TimerSetup([form |-> "string", time |-> 0])
    /\ \E window \in BOOLEAN : logs = LogsCreated(window)

NextLogger ==
    \/ \E shouldLog \in BOOLEAN : LogCalled(shouldLog)
    \/ ClearLogs

SpecLogger == InitLogger /\ [][NextLogger]_vars

----------------------------------------------------------------------------
(* coalesceFunction: claims *)

\* The calls of wrapper w whose derived key is k and that have not received
\* an outcome, and the invocations of fn made for them that have not settled.
WrappedRunning(w, k) ==
    {r \in RequestIds : /\ requests[r].state = "running"
                        /\ requests[r].request.wrapper = w
                        /\ KeyFn(requests[r].request.args) = k}

C21_State ==
    /\ \A w \in Wrappers : \A a \in FnArgs : Cardinality(WrappedRunning(w, KeyFn(a))) <= 1
    /\ \A r \in RequestIds :
          /\ requests[r].request = calls[requests[r].owner].request
          /\ \A c \in Attached(r) :
                /\ calls[c].request.wrapper = requests[r].request.wrapper
                /\ KeyFn(calls[c].request.args) = KeyFn(requests[r].request.args)
                /\ calls[c].invoked <=> requests[r].owner = c
                /\ calls[c].got # NoOutcome =>
                      /\ calls[c].got = requests[r].result
                      /\ calls[c].got.kind = "ok" =>
                            calls[c].got.val = calls[requests[r].owner].request.args

C21_Step ==
    IsCallStep =>
        LET w == NewCall.request.wrapper
            k == KeyFn(NewCall.request.args)
        IN  IF WrappedRunning(w, k) # {}
              THEN /\ NewCall.promise \in WrappedRunning(w, k)
                   /\ ~NewCall.invoked
                   /\ requests' = requests
              ELSE /\ InvokesOwn
                   /\ requests'[Len(requests')].request = NewCall.request

\* C21: calls of a function returned by coalesceFunction whose derived keys
\* are equal and that overlap invoke fn once, with the arguments of the first
\* of them, and all receive that result even when their own arguments differ;
\* a call whose key no running invocation of its wrapper has invokes fn; two
\* wrappers never share an invocation.
C21_WrappedCoalescing == []C21_State /\ [][C21_Step]_vars

C21_Witness ==
    /\ Len(calls) = 3 /\ Len(requests) = 2
    /\ calls[1].request = [wrapper |-> "f", args |-> <<"123", "a">>]
    /\ calls[2].request = [wrapper |-> "f", args |-> <<"123", "b">>]
    /\ calls[3].request = [wrapper |-> "g", args |-> <<"123", "a">>]
    /\ calls[2].promise = 1 /\ calls[2].got = Ok(<<"123", "a">>)
    /\ calls[3].promise = 2 /\ calls[3].invoked

----------------------------------------------------------------------------
(* createKey: claims *)

\* The names of the properties of an object
PropNames(x) == {x.v[i].k : i \in 1..Len(x.v)}

\* The value of property name of the object x
PropValue(x, name) == x.v[CHOOSE i \in 1..Len(x.v) : x.v[i].k = name].v

\* Structural equality of two values: the same type and, for an array, equal
\* elements in order, for an object, the same properties with equal values.
RECURSIVE StructEq(_, _)
StructEq(a, b) ==
    /\ a.t = b.t
    /\ CASE a.t \in {"null", "undefined"} -> TRUE
         [] a.t \in {"string", "number", "boolean"} -> a.v = b.v
         [] a.t = "array" ->
               /\ Len(a.v) = Len(b.v)
               /\ \A i \in 1..Len(a.v) : StructEq(a.v[i], b.v[i])
         [] a.t = "object" ->
               /\ PropNames(a) = PropNames(b)
               /\ \A name \in PropNames(a) :
                     StructEq(PropValue(a, name), PropValue(b, name))

\* C22: createKey is deterministic and separating: two parameter lists have
\* the same key exactly when they are structurally equal.
C22_KeyDeterministicAndSeparating ==
    \A i, j \in DOMAIN created :
        StructEq(Arr(created[i].params), Arr(created[j].params))
            <=> created[i].key = created[j].key

----------------------------------------------------------------------------
(* Settlements that arrive after clear or invalidate: claims *)

C23_Step ==
    \A k \in Keys :
        (MapHas(pendingRequests, k) /\ ~MapHas(pendingRequests', k)) =>
            \/ SettlesStep(MapGet(pendingRequests, k))
            \/ ClearsStep(MapGet(pendingRequests, k))

\* C23: a pending entry is removed only when the operation that registered
\* it settles or when clear or clearAll removes it; the settlement of an
\* operation whose entry was cleared leaves the entry a later execute
\* registered for the same key.
C23_RemovedOnlyByOwnSettlement == [][C23_Step]_vars

C24_Step ==
    \A k \in RaceKeys : \A p \in Slots :
        (/\ (last.op = "invalidate" /\ last.key = k) \/ last.op = "clear"
         /\ inflight[p].key = k
         /\ ResolvesStep(p))
        => ~IsCached(k)'

\* C24: after invalidate(k) or clear(), the result of an operation for k that
\* was started before that call is not admitted to the cache: when such an
\* operation resolves before any later execute, isCached(k) stays false.
C24_NoStaleAdmission == [][C24_Step]_vars

C25_State == \A k \in Keys : ~(IsCached(k) /\ IsPending(k))

\* C25: no key is both validly cached and pending, across every interleaving
\* of execute calls, settlements, invalidate, clear and the passage of time.
C25_CachedXorPending == []C25_State

\* A valid entry for a key one of whose operations is still running: the
\* operation lost its pending entry to invalidate or to an earlier settlement.
C25_Witness ==
    \E k \in Keys : \E p \in Slots :
        /\ IsCached(k)
        /\ inflight[p].key = k /\ inflight[p].state = "running"

----------------------------------------------------------------------------
(* CachedRequestCoalescer: claims on refreshed entries and the access order *)

C26_Step ==
    \A p \in Slots :
        (ResolvesStep(p) /\ ExpiredEntry(inflight[p].key)) =>
            /\ \A k \in LruKeys \ {inflight[p].key} :
                  MapHas(cache, k) => (MapHas(cache', k) /\ cache'[k] = cache[k])
            /\ MapSize(cache') >= MapSize(cache)

\* C26: with maxSize configured, admitting a fresh result for a key whose
\* expired entry is still in the cache evicts no other key: the other cached
\* entries are unchanged and the cache size does not decrease.
C26_RefreshEvictsNothing == [][C26_Step]_vars

C27_State ==
    /\ \A i \in 1..Len(accessOrder) : MapHas(cache, accessOrder[i])
    /\ Len(accessOrder) = MapSize(cache)
    /\ MapSize(cache) > 0 => MapHas(cache, accessOrder[1])

\* C27: the access order names no key that is absent from the cache; its
\* length is the cache size and, when the cache is not empty, its front
\* element is a key of the cache.
C27_AccessOrderWithinCache == []C27_State

\* An eviction has just taken the front of a full access order.
C27_Witness ==
    /\ last = [op |-> "then", key |-> "k3", val |-> "k1"]
    /\ accessOrder = <<"k2", "k3">>
    /\ DOMAIN cache = {"k2", "k3"}

----------------------------------------------------------------------------
(* Queries: claims *)

Queries == {"isPending", "isCached", "getPendingCount", "getStats"}

\* A query ran in this step: the record of the last call names a query, and
\* no operation was started, settled or observed.
QueryStep ==
    /\ last'.op \in Queries
    /\ requests' = requests /\ calls' = calls /\ inflight' = inflight

C28_Step ==
    /\ QueryStep =>
          /\ pendingRequests' = pendingRequests
          /\ cache' = cache
          /\ accessOrder' = accessOrder
    /\ \A p \in Slots :
          (/\ last.op = "isCached" /\ last.key = LruKey /\ ShouldEvict
           /\ ResolvesStep(p) /\ ~MapHas(cache, inflight[p].key))
          => ~MapHas(cache', last.key)

\* C28: isPending, isCached, getPendingCount and getStats leave the pending
\* map, the cache and the access order unchanged; a key that isCached was
\* just asked about at the front of a full access order is still the one the
\* next admission evicts.
C28_QueriesChangeNothing == [][C28_Step]_vars

\* isCached(k1) answered true for the least recently used key of a full cache
\* while the operation of a third key is running.
C28_Witness ==
    /\ last = [op |-> "isCached", key |-> "k1", val |-> "true"]
    /\ accessOrder = <<"k1", "k2">>
    /\ \E p \in Slots : inflight[p].key = "k3" /\ inflight[p].state = "running"

----------------------------------------------------------------------------
(* Termination of the bookkeeping: claims *)

\* A call of execute is made in this step.
IssuesExecute == IsCallStep \/ last'.op \in {"hit", "attach", "invoke"}

\* Every pending entry names an operation that has not settled.
C29_State ==
    \A k \in DOMAIN pendingRequests :
        IF inflight = <<>>
          THEN requests[pendingRequests[k]].state = "running"
          ELSE inflight[pendingRequests[k]].state = "running"

\* Every caller has received its outcome and nothing is pending.
C29_Settled ==
    /\ GetPendingCount = 0
    /\ \A c \in CallIds : calls[c].got # NoOutcome
    /\ Awaiting = 0

\* C29: no pending entry outlives the settlement of its operation, and when
\* every operation settles and from some point on no execute call is issued,
\* eventually every attached caller has received an outcome and the pending
\* map is empty, for good.
C29_BookkeepingTerminates ==
    /\ []C29_State
    /\ (<>[][~IssuesExecute]_vars) => <>[]C29_Settled

C29_Witness ==
    /\ C29_Settled
    /\ \/ Len(calls) = MaxCalls /\ \E r \in RequestIds : requests[r].cleared
       \/ last.op = "observe" /\ \E k \in RaceKeys : ExpiredEntry(k)

----------------------------------------------------------------------------
(* Race store: claims *)

FetchIds == DOMAIN fetches

\* A call of fetchRaces is made in this step.
IsFetchStep == Len(fetches') = Len(fetches) + 1

NewFetch == fetches'[Len(fetches')]

\* The non-silent calls that passed the guard and whose raceApi.getRaces call
\* has not settled.
LoudInFlight == {f \in FetchIds : ~fetches[f].silent /\ fetches[f].state = "awaiting"}

C30_Frame ==
    (IsFetchStep /\ ~NewFetch.silent /\ store.isLoading) =>
        /\ NewFetch.state = "skipped"
        /\ store' = store

C30_Step ==
    /\ C30_Frame
    /\ (IsFetchStep /\ ~NewFetch.silent /\ NewFetch.state = "awaiting") => LoudInFlight = {}

\* C30: a non-silent fetchRaces call made while isLoading is true returns
\* without calling raceApi.getRaces and without changing races, error,
\* isLoading or lastFetchTime; so a non-silent call passes the guard only when
\* no other non-silent fetch is in flight, and at most one is in flight.
C30_GuardedFetch == [][C30_Step]_vars

\* The raceApi.getRaces call of f rejects in this step.
GetRacesRejectsStep(f) ==
    /\ fetches[f].state = "awaiting"
    /\ last'.op = "getRaces" /\ last'.val = "rejected"
    /\ fetches'[f] # fetches[f]

C31_Step ==
    /\ \A f \in FetchIds :
          (GetRacesRejectsStep(f) /\ ~fetches[f].silent) =>
              /\ fetches'[f].state = "rejected"
              /\ Len(fetches'[f].thrown) = 1
              /\ store'.error = ErrorMessage(fetches'[f].thrown[1])
              /\ store'.error # "null"
              /\ store'.races = store.races
              /\ store'.lastFetchTime = store.lastFetchTime
              /\ ~store'.isLoading
    /\ last'.op = "clearError" =>
          /\ store'.error = "null"
          /\ store' = [store EXCEPT !.error = "null"]
          /\ fetches' = fetches

\* C31: when raceApi.getRaces rejects during a non-silent fetchRaces, error
\* becomes the failure's message, races and lastFetchTime keep their values,
\* the returned promise rejects with the failure and isLoading is false;
\* clearError sets error to null and changes nothing else.
C31_FailedFetch == [][C31_Step]_vars

\* A failed fetch after a successful one, then clearError: the races and the
\* time of the first fetch are still there.
C31_Witness ==
    /\ last.op = "clearError"
    /\ store.error = "null"
    /\ store.races # <<>> /\ store.lastFetchTime # <<>>
    /\ \E f \in FetchIds :
          /\ fetches[f].state = "rejected"
          /\ fetches[f].thrown = <<[isError |-> TRUE, message |-> "Network error"]>>

\* The raceApi.getRaces call of f settles in this step.
GetRacesSettlesStep(f) ==
    /\ fetches[f].state = "awaiting"
    /\ fetches'[f].state # "awaiting"

C32_Step ==
    /\ (IsFetchStep /\ NewFetch.silent) =>
          /\ NewFetch.state # "skipped"
          /\ store' = store
    /\ \A f \in FetchIds :
          (GetRacesSettlesStep(f) /\ fetches[f].silent) =>
              /\ store'.isLoading = store.isLoading
              /\ store'.error = store.error
              /\ fetches'[f].state = "resolved"
              /\ fetches'[f].thrown = <<>>
              /\ last'.val = "rejected" => store' = store

\* C32: a silent fetchRaces never changes isLoading or error, whether the API
\* call succeeds or fails; it is not stopped at the guard when isLoading is
\* true; an API failure during it leaves the store unchanged and the returned
\* promise resolves.
C32_SilentFetch == [][C32_Step]_vars

\* A silent call made while a non-silent one was loading, whose API call
\* rejected: the loading flag and the message are the non-silent call's.
C32_Witness ==
    /\ last = [op |-> "getRaces", key |-> "none", val |-> "rejected"]
    /\ Len(fetches) = 2
    /\ fetches[1] = FetchCall(FALSE, "awaiting")
    /\ fetches[2] = FetchCall(TRUE, "resolved")
    /\ store.isLoading /\ store.error = "null"

----------------------------------------------------------------------------
(* Race store, selection and display: claims *)

TogglesStep(categoryId) == last'.op = "toggleCategory" /\ last'.key = categoryId

C33_Known ==
    \A categoryId \in ValidCategoryIds :
        TogglesStep(categoryId) =>
            /\ (categoryId \in store'.selectedCategories)
                  <=> (categoryId \notin store.selectedCategories)
            /\ store'.selectedCategories \ {categoryId}
                  = store.selectedCategories \ {categoryId}
            /\ Toggled(store'.selectedCategories, categoryId) = store.selectedCategories

C33_Unknown ==
    \A categoryId \in CategoryInputs \ ValidCategoryIds :
        TogglesStep(categoryId) => store'.selectedCategories = store.selectedCategories

C33_All ==
    last'.op = "selectAllCategories" =>
        /\ store'.selectedCategories = {}
        /\ FilteredRaces' = store'.races

C33_Step == C33_Known /\ C33_Unknown /\ C33_All

\* C33: toggleCategory(id) for one of the three known ids flips the membership
\* of id and of no other id, so that a second call restores the selection;
\* for any other id the selection is unchanged; selectAllCategories leaves the
\* empty selection, for which filteredRaces is races.
C33_Selection == [][C33_Step]_vars

\* The races of list, as a bag of race ids
RaceIds(list) == {list[i].race_id : i \in 1..Len(list)}

C34_State ==
    /\ \A i \in 1..Len(SortedRaces) :
          /\ \E j \in 1..Len(store.races) : store.races[j] = SortedRaces[i]
          /\ store.selectedCategories # {} =>
                SortedRaces[i].category_id \in store.selectedCategories
    /\ RaceIds(SortedRaces) \subseteq RaceIds(FilteredRaces)
    /\ \A i \in 1..(Len(SortedRaces) - 1) :
          SortedRaces[i].advertised_start <= SortedRaces[i + 1].advertised_start
    /\ Len(SortedRaces) <= MaxRacesDisplayed
    /\ Len(SortedRaces) = IF Len(FilteredRaces) < MaxRacesDisplayed
                            THEN Len(FilteredRaces) ELSE MaxRacesDisplayed
    /\ Cardinality(RaceIds(SortedRaces)) = Len(SortedRaces)
    /\ \A i \in 1..Len(FilteredRaces) :
          FilteredRaces[i].race_id \notin RaceIds(SortedRaces) =>
              \A j \in 1..Len(SortedRaces) :
                  SortedRaces[j].advertised_start <= FilteredRaces[i].advertised_start

\* C34: sortedRaces holds only races of filteredRaces (the races of a selected
\* category, or all races when nothing is selected), in order of
\* non-decreasing advertised_start, at most MAX_RACES_DISPLAYED of them, and
\* they are the earliest-starting races of filteredRaces.
C34_DisplayedRaces == []C34_State

\* Six races of the selected category were fetched latest-first: the five
\* earliest are displayed, earliest first.
C34_Witness ==
    /\ store.selectedCategories = {"horse"}
    /\ Len(store.races) = 7
    /\ Len(FilteredRaces) = 6
    /\ Len(SortedRaces) = 5
    /\ SortedRaces[1].race_id = "m" /\ SortedRaces[5].race_id = "i"

\* C35: isLoading is true in every state in which a non-silent fetchRaces
\* call has passed the guard and has not settled, whatever reset, clearError,
\* silent fetches and other calls do meanwhile.
C35_LoadingWhileInFlight == LoudInFlight # {} => store.isLoading

\* Every call made so far got races from the API and has stored them.
AllSucceeded(calls_) ==
    \A f \in DOMAIN calls_ : calls_[f].state = "resolved" /\ calls_[f].result # <<>>

C36_Step ==
    \A f \in FetchIds :
        (GetRacesSettlesStep(f) /\ fetches'[f].result # <<>>) =>
            /\ (Len(fetches) > 1 /\ AllSucceeded(fetches')) =>
                  store'.races = fetches'[Len(fetches')].result[1]
            /\ last.op = "reset" => store'.races = <<>>

\* C36: when overlapping fetchRaces calls all succeed, races holds the result
\* of the call that was started last once all have settled; after reset(),
\* the success of a call that was started before it leaves races empty.
C36_LastStartedWins == [][C36_Step]_vars

----------------------------------------------------------------------------
(* CountdownTimer: claims *)

\* The step runs updateCountdown: on mount, on an interval tick, on a restart by the watcher.
UpdatesCountdown ==
    \/ last'.op \in {"onMounted", "interval"}
    \/ last'.op = "watch" /\ last'.val = "restarted"

\* An update has run and the last one observed timeLeft = 0.
ObservedZero(t) == t.stage # "setup" /\ t.timeLeft = 0

C37_State == timer.timeLeft >= 0

C37_Step ==
    /\ UpdatesCountdown => timer'.timeLeft = Max(0, GetTime(timer'.startTime) - now')
    /\ (UpdatesCountdown /\ ObservedZero(timer')) =>
          /\ timer'.intervalId = <<>>
          /\ timer'.intervals = {}
          /\ Displayed(timer') = "STARTED"
    /\ ObservedZero(timer) => last'.op # "interval"

\* C37: timeLeft is never negative and is max(0, startTime - now) after every update; once
\* an update observes timeLeft = 0 the interval is cleared, STARTED is displayed, and no
\* tick follows unless the startTime prop changes to another timestamp.
C37_StopsAtZero == []C37_State /\ [][C37_Step]_vars

C38_State ==
    /\ Cardinality(timer.intervals) <= 1
    /\ timer.intervals \subseteq {timer.intervalId[i] : i \in DOMAIN timer.intervalId}
    /\ timer.stage = "unmounted" => timer.intervals = {}

\* C38: through mount, ticks, startTime changes and unmount, at most one interval created by
\* the component is active (the one intervalId holds), and none is active after unmount.
C38_OneInterval == []C38_State

\* The component was mounted, restarted by a startTime change, and unmounted while its
\* second interval was running.
C38_Witness ==
    /\ timer.stage = "unmounted"
    /\ timer.created = 2
    /\ timer.timeLeft > 0
    /\ last.op = "onUnmounted"

----------------------------------------------------------------------------
(* Logger: claims *)

\* The last n elements of a sequence, in order
LastOf(s, n) == [i \in 1 .. n |-> s[Len(s) - n + i]]

C39_State ==
    /\ Len(GetLogs) <= 100
    /\ \A i, j \in DOMAIN GetLogs : i < j => GetLogs[i] < GetLogs[j]

C39_Step ==
    /\ (last'.op = "log" /\ last'.val = "stored" /\ logs.window /\ logs' # logs) =>
          LET all == Append(logs.appLogs, logs'.stored)
          IN  logs'.appLogs = LastOf(all, IF Len(all) > 100 THEN 100 ELSE Len(all))
    /\ (last'.op = "clearLogs" /\ last.op # "clearLogs") => logs'.appLogs = <<>>

\* C39: the log store never holds more than 100 entries; a log call past the limit drops
\* the oldest entries and keeps the most recent 100 in call order; clearLogs empties it.
C39_LogStoreCapped == []C39_State /\ [][C39_Step]_vars

\* Two entries have been dropped: the store holds entries 3 to 102.
C39_Witness ==
    /\ Len(GetLogs) = 100
    /\ GetLogs[1] = 3
    /\ GetLogs[100] = 102
    /\ last.val = "stored"

====
